---- MODULE Spec2Model ----
(***************************************************************************)
(* Model of amalgamate.py, the amalgamation script of the Semi language:   *)
(* discovery of the include graph, topological sort, header guard          *)
(* stripping and the assembly of the two output files.                     *)
(***************************************************************************)
EXTENDS Integers, Sequences, FiniteSets, TLC

VARIABLES
    project_root,    \* Amalgamator.project_root, a path (sequence of components)
    disk,            \* the file system: canonical path -> raw lines of the file
    files,           \* Amalgamator.files: path -> FileNode (lines, dependencies)
    to_process,      \* discover_files: the work list (a stack of node paths)
    processed,       \* discover_files: the local set `processed`
    pushes,          \* history: how often a node was appended to to_process
    scans,           \* history: how often a node's lines were scanned
    sorted_nodes,    \* amalgamate: result of topological_sort
    sorted_again,    \* result of a second, independent run of topological_sort
    headers,         \* amalgamate: header nodes in sorted order
    sources,         \* amalgamate: source nodes in sorted order
    source_content,  \* amalgamate: source_parts (list of lines)
    header_content,  \* amalgamate: header_parts (list of lines)
    written,         \* files written by write_output
    error,           \* the exception that ended the run, "" when none
    guard_path,      \* strip_include_guards: argument file_path
    guard_lines,     \* strip_include_guards: argument lines
    guard_result,    \* strip_include_guards: outcome
    pc               \* position of the run

vars == <<project_root, disk, files, to_process, processed, pushes, scans,
          sorted_nodes, sorted_again, headers, sources, source_content,
          header_content, written, error, guard_path, guard_lines,
          guard_result, pc>>

-----------------------------------------------------------------------------
(* Bounds of the model *)

\* most local include lines in the whole project tree
MaxIncludeLines == 3
\* most entries of the work list before the model stops following a run
MaxQueue == 4
\* the history counters pushes/scans saturate here
CountCap == 2
\* most dependency edges of a registry handed to topological_sort alone
MaxEdges == 4
\* most lines of a file handed to strip_include_guards alone
MaxLen == 5

-----------------------------------------------------------------------------
(* Lines of text.  A line is a record [k, a]: its kind and its argument.   *)

Line(k, a) == [k |-> k, a |-> a]

\* names matching [A-Z][A-Z0-9_]*_H
GuardNames == {"U_H", "X_H", "Y_H", "CONFIG_H", "ERROR_H", "SEMI_H"}

\* IFNDEF_PATTERN.match(line.strip())
IFNDEF_PATTERN(line) == line.k = "ifndef" /\ line.a \in GuardNames

\* LOCAL_INCLUDE_PATTERN.match(line.strip())
LOCAL_INCLUDE_PATTERN(line) == line.k = "include"

\* COPYRIGHT_LINES
COPYRIGHT_LINES == {Line("comment", "Copyright (c) 2025 Ian Chen"),
                    Line("comment", "SPDX-License-Identifier: MPL-2.0")}

IsBlank(line) == line.k = "blank"

\* str.endswith('.h') on the file names of the model
HeaderNames == {"u.h", "v.h", "config.h", "error.h", "semi.h"}

Last(s) == s[Len(s)]

is_header(path) == Len(path) > 0 /\ Last(path) \in HeaderNames

-----------------------------------------------------------------------------
(* strip_include_guards *)

Raise(msg) == [ok |-> FALSE, lines |-> <<>>, err |-> msg]
Return(ls) == [ok |-> TRUE, lines |-> ls, err |-> ""]

\* the first index from i on whose line is a guard-shaped #ifndef, 0 when none
RECURSIVE FindIfndef(_, _)
FindIfndef(lines, i) ==
    IF i > Len(lines) THEN 0
    ELSE IF IFNDEF_PATTERN(lines[i]) THEN i
    ELSE FindIfndef(lines, i + 1)

\* the backward scan for the first non-empty line, down to define_idx + 1:
\* its index when it starts with #endif, 0 when the scan finds no line,
\* -1 when the line found is not an #endif
\* faulty variant: the scan does not skip the empty lines at the end
FindEndifNoSkip(lines, i, define_idx) ==
    IF i <= define_idx THEN 0
    ELSE IF lines[i].k = "endif" THEN i ELSE -1

RECURSIVE FindEndif(_, _, _)
FindEndif(lines, i, define_idx) ==
    IF i <= define_idx THEN 0
    ELSE IF ~IsBlank(lines[i])
         THEN (IF lines[i].k = "endif" THEN i ELSE -1)
    ELSE FindEndif(lines, i - 1, define_idx)

\* faulty variant: any #define after the #ifndef is taken for the guard's
DefineAnyName(line, guard_name) == line.k = "define"

DefineMatches(line, guard_name) == line.k = "define" /\ line.a = guard_name

strip_include_guards(lines, file_path) ==
    IF ~is_header(file_path) THEN Return(lines)
    ELSE LET ifndef_idx == FindIfndef(lines, 1)
             define_idx == ifndef_idx + 1
         IN  IF ifndef_idx = 0 THEN Raise("MalformedGuard")
             ELSE IF define_idx > Len(lines) THEN Raise("MalformedGuard")
             ELSE IF ~DefineMatches(lines[define_idx], lines[ifndef_idx].a)
                  THEN Raise("MalformedGuard")
             ELSE LET endif_idx == FindEndif(lines, Len(lines), define_idx)
                  IN  IF endif_idx < 1 THEN Raise("MalformedGuard")
                      ELSE Return(SubSeq(lines, define_idx + 1, endif_idx - 1))

\* remove_local_includes
RECURSIVE remove_local_includes(_)
remove_local_includes(lines) ==
    IF lines = <<>> THEN <<>>
    ELSE IF LOCAL_INCLUDE_PATTERN(Head(lines))
         THEN remove_local_includes(Tail(lines))
         ELSE <<Head(lines)>> \o remove_local_includes(Tail(lines))

-----------------------------------------------------------------------------
(* Paths.  A path is the sequence of its components; "L" is a second       *)
(* spelling of the project directory "R" (a symbolic link to it), so that  *)
(* <<"L", "src", "a.c">> and <<"R", "src", "a.c">> name one physical file. *)

RealRoot == <<"R">>
AliasRoot == <<"L">>
Roots == {RealRoot, AliasRoot}

Parent(path) == SubSeq(path, 1, Len(path) - 1)

FollowLink(path) == IF path = AliasRoot THEN RealRoot ELSE path

\* Path.resolve(): "." and ".." removed, symbolic links followed
RECURSIVE ResolveFrom(_, _)
ResolveFrom(acc, rest) ==
    IF rest = <<>> THEN acc
    ELSE IF Head(rest) = "." THEN ResolveFrom(acc, Tail(rest))
    ELSE IF Head(rest) = ".."
         THEN ResolveFrom(IF acc = <<>> THEN acc ELSE Parent(acc), Tail(rest))
    ELSE CHOOSE r \in {ResolveFrom(FollowLink(a), t) :
                          a \in {Append(acc, Head(rest))}, t \in {Tail(rest)}} : TRUE

resolve(path) == ResolveFrom(<<>>, path)

src_dir(root) == root \o <<"src">>
include_dir(root) == root \o <<"include", "semi">>

\* Amalgamator.header_files, in their fixed order
header_files(root) == << include_dir(root) \o <<"config.h">>,
                         include_dir(root) \o <<"error.h">>,
                         include_dir(root) \o <<"semi.h">> >>

Range(s) == {s[i] : i \in DOMAIN s}

\* the include literals of the model, in the order they occur in a file
LiteralOrder == << "u.h", "./u.h", "b.c", "semi/config.h",
                   "../include/semi/config.h", "nope.h" >>
IncludeLiterals == Range(LiteralOrder)

\* the components of an include literal
LiteralParts(lit) ==
    CASE lit = "u.h" -> <<"u.h">>
      [] lit = "./u.h" -> <<".", "u.h">>
      [] lit = "b.c" -> <<"b.c">>
      [] lit = "semi/config.h" -> <<"semi", "config.h">>
      [] lit = "../include/semi/config.h" -> <<"..", "include", "semi", "config.h">>
      [] lit = "nope.h" -> <<"nope.h">>
      [] lit = "config.h" -> <<"config.h">>
      [] lit = "semi.h" -> <<"semi.h">>

\* '<' in include_path or '>' in include_path
HasAngle(lit) == lit \in {"<stdio.h>"}

normalize_path(include_path, current_file, root) ==
    LET parts == LiteralParts(include_path)
        current_dir == Parent(current_file)
    IN  IF Len(parts) > 1 /\ Head(parts) = "."
        THEN resolve(current_dir \o Tail(parts))
        ELSE IF Len(parts) > 1 /\ Head(parts) = "semi"
        THEN resolve(include_dir(root) \o Tail(parts))
        ELSE resolve(current_dir \o parts)

\* the order of path strings: component by component, names in ASCII order
NameOrder == << "L", "R", "a.c", "b.c", "config.h", "error.h", "include",
                "semi", "semi.h", "src", "u.h", "v.h" >>
NameRank(n) == CHOOSE i \in DOMAIN NameOrder : NameOrder[i] = n

RECURSIVE PathLess(_, _)
PathLess(p, q) ==
    IF q = <<>> THEN FALSE
    ELSE IF p = <<>> THEN TRUE
    ELSE IF Head(p) = Head(q) THEN PathLess(Tail(p), Tail(q))
    ELSE NameRank(Head(p)) < NameRank(Head(q))

\* sorted(..., key=lambda n: n.path)
Least(S) == CHOOSE x \in S : \A y \in S \ {x} : PathLess(x, y)

RECURSIVE SortByPath(_)
SortByPath(S) ==
    IF S = {} THEN <<>>
    ELSE CHOOSE r \in {<<m>> \o SortByPath(S \ {m}) : m \in {Least(S)}} : TRUE

-----------------------------------------------------------------------------
(* read_file *)

\* the leading copyright and empty lines are skipped
RECURSIVE StripCopyright(_)
StripCopyright(raw) ==
    IF raw = <<>> THEN <<>>
    ELSE IF Head(raw) \in COPYRIGHT_LINES \/ IsBlank(Head(raw))
         THEN StripCopyright(Tail(raw))
         ELSE raw

\* FileNode(path) filled by read_file: no lines when the file is not found
read_file(file_path, dsk) ==
    [lines |-> IF resolve(file_path) \in DOMAIN dsk
               THEN StripCopyright(dsk[resolve(file_path)])
               ELSE <<>>,
     dependencies |-> {}]

-----------------------------------------------------------------------------
(* topological_sort *)

\* the enumerations of a finite set
PermSeqs(S) == {s \in [1..Cardinality(S) -> S] : Range(s) = S}

\* node.dependencies is a set of objects hashed by their address: the order
\* `for dep_node in node.dependencies` walks it in differs from one process
\* to the next.  An iteration order gives every node an enumeration of its
\* dependencies.
RECURSIVE IterationOrders(_, _)
IterationOrders(keys, reg) ==
    IF keys = {} THEN {<<>>}
    ELSE LET k == CHOOSE x \in keys : TRUE
         IN  {(k :> s) @@ f : s \in PermSeqs(reg[k].dependencies),
                              f \in IterationOrders(keys \ {k}, reg)}

\* visit(node) on the closure state st = [visited, result]; VisitEach is the
\* loop over the dependencies
RECURSIVE visit(_, _, _), VisitEach(_, _, _)

\* faulty variant: the node is appended before its dependencies are visited
visit_preorder(node, order, st) ==
    IF node \in st.visited THEN st
    ELSE VisitEach(order[node], order,
                   [visited |-> st.visited \cup {node},
                    result |-> Append(st.result, node)])

visit(node, order, st) ==
    IF node \in st.visited THEN st
    ELSE LET entered == [st EXCEPT !.visited = @ \cup {node}]
             below == VisitEach(order[node], order, entered)
         IN  [below EXCEPT !.result = Append(@, node)]

\* (the state after one visit is bound to a value before the loop goes on)
VisitEach(nodes, order, st) ==
    IF nodes = <<>> THEN st
    ELSE CHOOSE r \in {VisitEach(Tail(nodes), order, after) :
                          after \in {visit(Head(nodes), order, st)}} : TRUE

\* faulty variant: the traversal starts only from the units nothing depends on
topological_sort_from_roots(nodes, order) ==
    LET IsRoot(n) == \A m \in Range(nodes) : n \notin Range(order[m])
    IN  VisitEach(SelectSeq(nodes, IsRoot), order,
                  [visited |-> {}, result |-> <<>>]).result

topological_sort(nodes, order) ==
    VisitEach(nodes, order, [visited |-> {}, result |-> <<>>]).result

-----------------------------------------------------------------------------
(* The files on disk *)

Banner == << Line("comment", "Copyright (c) 2025 Ian Chen"),
             Line("comment", "SPDX-License-Identifier: MPL-2.0"),
             Line("blank", "") >>

SourceNames == {"a.c", "b.c"}
ScannedNames == {"a.c", "b.c", "u.h"}

\* where the local include lines of the project are: pairs <<file, literal>>;
\* no file of the model includes itself
Slots == {sl \in ScannedNames \X IncludeLiterals : Last(LiteralParts(sl[2])) # sl[1]}
Placements == {P \in SUBSET Slots : Cardinality(P) <= MaxIncludeLines}

IncludeLines(name, placement) ==
    LET Placed(lit) == <<name, lit>> \in placement
        lits == SelectSeq(LiteralOrder, Placed)
    IN  [i \in DOMAIN lits |-> Line("include", lits[i])]

SourceFile(name, placement) ==
    Banner \o <<Line("sysinclude", "<stdio.h>")>>
           \o IncludeLines(name, placement) \o <<Line("code", name)>>

GuardShapes == {"good", "mismatch", "noendif"}

Guarded(guard, shape, body) ==
    CASE shape = "good" ->
           <<Line("ifndef", guard), Line("define", guard)>> \o body
              \o <<Line("endif", guard), Line("blank", "")>>
      [] shape = "mismatch" ->
           <<Line("ifndef", "X_H"), Line("define", "Y_H")>> \o body
              \o <<Line("endif", "X_H")>>
      [] shape = "noendif" ->
           <<Line("ifndef", guard), Line("define", guard)>> \o body

HeaderFile(name, guard, shape, includes) ==
    Banner \o Guarded(guard, shape, includes \o <<Line("code", name)>>)

Disk(placement, ushape, cshape) ==
    (src_dir(RealRoot) \o <<"a.c">> :> SourceFile("a.c", placement))
    @@ (src_dir(RealRoot) \o <<"b.c">> :> SourceFile("b.c", placement))
    @@ (src_dir(RealRoot) \o <<"u.h">> :>
          HeaderFile("u.h", "U_H", ushape, IncludeLines("u.h", placement)))
    @@ (include_dir(RealRoot) \o <<"config.h">> :>
          HeaderFile("config.h", "CONFIG_H", cshape, <<>>))
    @@ (include_dir(RealRoot) \o <<"error.h">> :>
          HeaderFile("error.h", "ERROR_H", "good", <<>>))
    @@ (include_dir(RealRoot) \o <<"semi.h">> :>
          HeaderFile("semi.h", "SEMI_H", "good",
                     <<Line("include", "config.h")>>))

-----------------------------------------------------------------------------
(* discover_files *)

Count(f, p) == IF p \in DOMAIN f THEN f[p] ELSE 0
Bump(f, p) ==
    (p :> (IF Count(f, p) < CountCap THEN Count(f, p) + 1 ELSE CountCap)) @@ f

\* self.src_dir.glob("*.c")
Glob(root, dsk) ==
    {src_dir(root) \o <<n>> : n \in {m \in SourceNames :
                                  resolve(src_dir(root) \o <<m>>) \in DOMAIN dsk}}

\* `if resolved_path in self.header_files`
IsSpecialHeader(resolved_path, root) == resolved_path \in Range(header_files(root))

\* `if node not in processed` before to_process.append(dep_node)
MayAppend(node, done) == node \notin done

\* the body of `for line in node.lines` for one line, on the loop state
\* st = [files, queue, pushes]
ScanLine(line, node, root, dsk, done, st) ==
    IF ~LOCAL_INCLUDE_PATTERN(line) THEN st
    ELSE IF HasAngle(line.a) THEN st
    ELSE LET resolved_path == normalize_path(line.a, node, root)
         IN  IF resolved_path \notin DOMAIN dsk THEN st
             ELSE IF IsSpecialHeader(resolved_path, root) THEN st
             ELSE LET known == IF resolved_path \in DOMAIN st.files
                               THEN st.files
                               ELSE (resolved_path :> read_file(resolved_path, dsk))
                                    @@ st.files
                      linked == [known EXCEPT ![node].dependencies =
                                                  @ \cup {resolved_path}]
                  IN  IF MayAppend(node, done)
                      THEN [files |-> linked,
                            queue |-> Append(st.queue, resolved_path),
                            pushes |-> Bump(st.pushes, resolved_path)]
                      ELSE [st EXCEPT !.files = linked]

RECURSIVE ScanLines(_, _, _, _, _, _)
ScanLines(lines, node, root, dsk, done, st) ==
    IF lines = <<>> THEN st
    ELSE CHOOSE r \in {ScanLines(Tail(lines), node, root, dsk, done, after) :
                          after \in {ScanLine(Head(lines), node, root, dsk, done, st)}} :
             TRUE

-----------------------------------------------------------------------------
(* amalgamate: the assembly of the two artifacts *)

basename(path) == Last(path)

Block(name, lines) ==
    <<Line("BEGIN", name)>> \o lines \o <<Line("END", name), Line("blank", "")>>

SourcePreamble ==
    << Line("comment", "Copyright (c) 2025 Ian Chen"),
       Line("comment", "SPDX-License-Identifier: MPL-2.0"),
       Line("blank", ""),
       Line("comment", "amalgamated implementation"),
       Line("comment", "Generated by amalgamate.py"),
       Line("blank", ""),
       Line("include", "semi.h"),
       Line("blank", "") >>

HeaderPreamble ==
    << Line("comment", "Copyright (c) 2025 Ian Chen"),
       Line("comment", "SPDX-License-Identifier: MPL-2.0"),
       Line("blank", ""),
       Line("comment", "public header"),
       Line("comment", "Generated by amalgamate.py"),
       Line("blank", ""),
       Line("ifndef", "SEMI_AMALGAMATED_H"),
       Line("define", "SEMI_AMALGAMATED_H"),
       Line("blank", "") >>

\* headers = [node for node in sorted_nodes if node.is_header]
HeadersOf(nodes) == SelectSeq(nodes, is_header)

\* sources = [node for node in sorted_nodes if not node.is_header]
SourcesOf(nodes) ==
    LET NotHeader(n) == ~is_header(n) IN SelectSeq(nodes, NotHeader)

\* the blocks of the graph headers: guards stripped, local includes removed
RECURSIVE HeaderBlocks(_, _)
\* the block of one header put before the blocks of the headers after it;
\* the first failure wins
BlockThen(name, stripped, rest) ==
    IF ~stripped.ok THEN stripped
    ELSE IF ~rest.ok THEN rest
    ELSE Return(Block(name, remove_local_includes(stripped.lines)) \o rest.lines)

HeaderBlocks(nodes, reg) ==
    IF nodes = <<>> THEN Return(<<>>)
    ELSE CHOOSE r \in
           {BlockThen(basename(Head(nodes)), stripped, rest) :
              stripped \in {strip_include_guards(reg[Head(nodes)].lines, Head(nodes))},
              rest \in {HeaderBlocks(Tail(nodes), reg)}} : TRUE

RECURSIVE SourceBlocks(_, _)
SourceBlocks(nodes, reg) ==
    IF nodes = <<>> THEN <<>>
    ELSE Block(basename(Head(nodes)), remove_local_includes(reg[Head(nodes)].lines))
         \o SourceBlocks(Tail(nodes), reg)

\* the blocks of the special header files, read afresh
RECURSIVE PublicBlocks(_, _)
PublicBlocks(paths, dsk) ==
    IF paths = <<>> THEN Return(<<>>)
    ELSE CHOOSE r \in
           {BlockThen(basename(Head(paths)), stripped, rest) :
              stripped \in {strip_include_guards(read_file(Head(paths), dsk).lines,
                                                 Head(paths))},
              rest \in {PublicBlocks(Tail(paths), dsk)}} : TRUE

-----------------------------------------------------------------------------
(* The run of main(): discover, sort, assemble, write *)

\* the state main() starts in: a project root among `roots`, the files on
\* disk with the guard of u.h among `ushapes`, that of config.h among `cshapes`
InitWith(roots, ushapes, cshapes) ==
    /\ project_root \in roots
    /\ \E placement \in Placements, ushape \in ushapes, cshape \in cshapes :
          disk = Disk(placement, ushape, cshape)
    /\ files = <<>>
    /\ to_process = <<>>
    /\ processed = {}
    /\ pushes = <<>>
    /\ scans = <<>>
    /\ sorted_nodes = <<>>
    /\ sorted_again = <<>>
    /\ headers = <<>>
    /\ sources = <<>>
    /\ source_content = <<>>
    /\ header_content = <<>>
    /\ written = {}
    /\ error = ""
    /\ guard_path = <<>>
    /\ guard_lines = <<>>
    /\ guard_result = Return(<<>>)
    /\ pc = "main"

Init == InitWith(Roots, GuardShapes, {"good", "mismatch"})

\* amalgamate: the glob of the seeds and the head of discover_files
StartDiscover ==
    /\ pc = "main"
    /\ \E start_files \in PermSeqs(Glob(project_root, disk)) :
          /\ to_process' = start_files
          /\ files' = [path \in Range(start_files) |-> read_file(path, disk)]
          /\ pushes' = [path \in Range(start_files) |-> 1]
    /\ processed' = {}
    /\ pc' = "discover"
    /\ UNCHANGED <<project_root, disk, scans, sorted_nodes, sorted_again,
                   headers, sources, source_content, header_content, written,
                   error, guard_path, guard_lines, guard_result>>

\* one iteration of `while to_process`
DiscoverStep ==
    /\ pc = "discover"
    /\ to_process # <<>>
    /\ IF Last(to_process) \in processed
       THEN /\ to_process' = Parent(to_process)
            /\ UNCHANGED <<files, pushes, scans, pc>>
       ELSE \E st \in {ScanLines(files[Last(to_process)].lines, Last(to_process),
                                 project_root, disk, processed,
                                 [files |-> files, queue |-> Parent(to_process),
                                  pushes |-> pushes])} :
                /\ files' = st.files
                /\ pushes' = st.pushes
                /\ scans' = Bump(scans, Last(to_process))
                /\ IF Len(st.queue) > MaxQueue
                   THEN /\ pc' = "overflow"
                        /\ to_process' = Parent(to_process)
                   ELSE /\ pc' = pc
                        /\ to_process' = st.queue
    /\ UNCHANGED <<project_root, disk, processed, sorted_nodes, sorted_again,
                   headers, sources, source_content, header_content, written,
                   error, guard_path, guard_lines, guard_result>>

\* amalgamate: discover_files has returned; sort all discovered files
Sequence ==
    /\ pc = "discover"
    /\ to_process = <<>>
    /\ \E order \in IterationOrders(DOMAIN files, files) :
          sorted_nodes' = topological_sort(SortByPath(DOMAIN files), order)
    /\ pc' = "assemble"
    /\ UNCHANGED <<project_root, disk, files, to_process, processed, pushes,
                   scans, sorted_again, headers, sources, source_content,
                   header_content, written, error, guard_path, guard_lines,
                   guard_result>>

\* amalgamate: build source_parts and header_parts; a ValueError of
\* strip_include_guards leaves amalgamate and main
Assemble ==
    /\ pc = "assemble"
    /\ headers' = HeadersOf(sorted_nodes)
    /\ sources' = SourcesOf(sorted_nodes)
    /\ \E hb \in {HeaderBlocks(HeadersOf(sorted_nodes), files)},
          pb \in {PublicBlocks(header_files(project_root), disk)} :
          IF hb.ok /\ pb.ok
          THEN /\ source_content' = SourcePreamble \o hb.lines
                                      \o SourceBlocks(SourcesOf(sorted_nodes), files)
               /\ header_content' = HeaderPreamble \o pb.lines
                      \o <<Line("endif", "SEMI_AMALGAMATED_H"), Line("blank", "")>>
               /\ pc' = "write"
               /\ error' = error
          ELSE /\ pc' = "failed"
               /\ error' = (IF hb.ok THEN pb.err ELSE hb.err)
               /\ UNCHANGED <<source_content, header_content>>
    /\ UNCHANGED <<project_root, disk, files, to_process, processed, pushes,
                   scans, sorted_nodes, sorted_again, written, guard_path,
                   guard_lines, guard_result>>

\* write_output
WriteOutput ==
    /\ pc = "write"
    /\ written' = {"semi.c", "semi.h"}
    /\ pc' = "done"
    /\ UNCHANGED <<project_root, disk, files, to_process, processed, pushes,
                   scans, sorted_nodes, sorted_again, headers, sources,
                   source_content, header_content, error, guard_path,
                   guard_lines, guard_result>>

Next == StartDiscover \/ DiscoverStep \/ Sequence \/ Assemble \/ WriteOutput

Spec == Init /\ [][Next]_vars

\* the run is one sequential process: it takes its next step whenever it has one
\* Discovery reads neither the guards nor the spelling of the root for its
\* loop control: the fair runs start from well-formed headers under the
\* canonical root.
FairInit == InitWith({RealRoot}, {"good"}, {"good"})

FairSpec == FairInit /\ [][Next]_vars /\ WF_vars(Next)

-----------------------------------------------------------------------------
(* topological_sort on its own: any registry over four units, sorted twice *)

SortUnits == {src_dir(RealRoot) \o <<n>> : n \in {"a.c", "b.c", "u.h", "v.h"}}

EdgeSets == {E \in SUBSET (SortUnits \X SortUnits) : Cardinality(E) <= MaxEdges}

Registry(edges) ==
    [p \in SortUnits |->
        [lines |-> <<>>, dependencies |-> {q \in SortUnits : <<p, q>> \in edges}]]

SortInit ==
    /\ project_root = RealRoot
    /\ disk = <<>>
    /\ \E edges \in EdgeSets : files = Registry(edges)
    /\ to_process = <<>>
    /\ processed = {}
    /\ pushes = <<>>
    /\ scans = <<>>
    /\ sorted_nodes = <<>>
    /\ sorted_again = <<>>
    /\ headers = <<>>
    /\ sources = <<>>
    /\ source_content = <<>>
    /\ header_content = <<>>
    /\ written = {}
    /\ error = ""
    /\ guard_path = <<>>
    /\ guard_lines = <<>>
    /\ guard_result = Return(<<>>)
    /\ pc = "sort"

\* a run of topological_sort on the sorted registry
SortOnce ==
    /\ pc = "sort"
    /\ \E order \in IterationOrders(DOMAIN files, files) :
          sorted_nodes' = topological_sort(SortByPath(DOMAIN files), order)
    /\ pc' = "sorted"
    /\ UNCHANGED <<project_root, disk, files, to_process, processed, pushes,
                   scans, sorted_again, headers, sources, source_content,
                   header_content, written, error, guard_path, guard_lines,
                   guard_result>>

\* a second run, in another process, on the same registry
SortAgain ==
    /\ pc = "sorted"
    /\ \E order \in IterationOrders(DOMAIN files, files) :
          sorted_again' = topological_sort(SortByPath(DOMAIN files), order)
    /\ pc' = "resorted"
    /\ UNCHANGED <<project_root, disk, files, to_process, processed, pushes,
                   scans, sorted_nodes, headers, sources, source_content,
                   header_content, written, error, guard_path, guard_lines,
                   guard_result>>

SortNext == SortOnce \/ SortAgain

SortSpec == SortInit /\ [][SortNext]_vars

-----------------------------------------------------------------------------
(* strip_include_guards on its own: any file of up to MaxLen lines *)

GuardAlphabet == { Line("ifndef", "U_H"), Line("ifndef", "u_h"),
                   Line("define", "U_H"), Line("define", "X_H"),
                   Line("endif", ""), Line("blank", ""), Line("code", "x") }

LineSeqs == UNION {[1..n -> GuardAlphabet] : n \in 0..MaxLen}

GuardInit ==
    /\ project_root = RealRoot
    /\ disk = <<>>
    /\ files = <<>>
    /\ to_process = <<>>
    /\ processed = {}
    /\ pushes = <<>>
    /\ scans = <<>>
    /\ sorted_nodes = <<>>
    /\ sorted_again = <<>>
    /\ headers = <<>>
    /\ sources = <<>>
    /\ source_content = <<>>
    /\ header_content = <<>>
    /\ written = {}
    /\ error = ""
    /\ guard_path \in {src_dir(RealRoot) \o <<"u.h">>, src_dir(RealRoot) \o <<"a.c">>}
    /\ guard_lines \in LineSeqs
    /\ guard_result = Return(<<>>)
    /\ pc = "strip"

StripGuards ==
    /\ pc = "strip"
    /\ guard_result' = strip_include_guards(guard_lines, guard_path)
    /\ pc' = "stripped"
    /\ UNCHANGED <<project_root, disk, files, to_process, processed, pushes,
                   scans, sorted_nodes, sorted_again, headers, sources,
                   source_content, header_content, written, error, guard_path,
                   guard_lines>>

GuardNext == StripGuards

GuardSpec == GuardInit /\ [][GuardNext]_vars

-----------------------------------------------------------------------------
(* Properties *)

IndexIn(seq, x) == CHOOSE i \in DOMAIN seq : seq[i] = x

IsPermutationOf(seq, S) ==
    /\ Range(seq) = S
    /\ Len(seq) = Cardinality(S)

\* the units reachable from the units of S along dependency edges
RECURSIVE Closure(_, _)
Closure(reg, S) ==
    LET T == S \cup UNION {reg[x].dependencies : x \in S}
    IN  IF T = S THEN S ELSE Closure(reg, T)

Acyclic(reg) ==
    \A p \in DOMAIN reg : p \notin Closure(reg, reg[p].dependencies)

DependenciesFirst(seq, reg) ==
    \A a \in DOMAIN reg : \A b \in reg[a].dependencies :
        IndexIn(seq, b) < IndexIn(seq, a)

UnitA == src_dir(RealRoot) \o <<"a.c">>
UnitB == src_dir(RealRoot) \o <<"b.c">>
UnitC == src_dir(RealRoot) \o <<"u.h">>
UnitD == src_dir(RealRoot) \o <<"v.h">>

Diamond == Registry({<<UnitA, UnitB>>, <<UnitA, UnitC>>,
                     <<UnitB, UnitD>>, <<UnitC, UnitD>>})

\* C1: on every acyclic dependency graph topological_sort returns every unit
\* of the registry exactly once, each dependency before the unit that
\* includes it.
C1_TopologicalOrder ==
    (pc = "sorted" /\ Acyclic(files)) =>
        /\ IsPermutationOf(sorted_nodes, DOMAIN files)
        /\ DependenciesFirst(sorted_nodes, files)

\* the diamond A->B, A->C, B->D, C->D has been sorted: D before B and C,
\* both before A
C1_Witness ==
    /\ pc = "sorted"
    /\ files = Diamond
    /\ IndexIn(sorted_nodes, UnitD) < IndexIn(sorted_nodes, UnitB)
    /\ IndexIn(sorted_nodes, UnitD) < IndexIn(sorted_nodes, UnitC)
    /\ IndexIn(sorted_nodes, UnitB) < IndexIn(sorted_nodes, UnitA)
    /\ IndexIn(sorted_nodes, UnitC) < IndexIn(sorted_nodes, UnitA)

\* the registry edges between two different units, as pairs <<a, b>>
\* (a includes b)
Edges(reg) ==
    {e \in (DOMAIN reg) \X (DOMAIN reg) : e[2] \in reg[e[1]].dependencies /\ e[1] # e[2]}

\* the place of a unit's BEGIN marker in the combined source: the k-th BEGIN
\* line for the k-th unit emitted
BlockStart(n) ==
    LET k == IndexIn(headers \o sources, n)
    IN  CHOOSE i \in DOMAIN source_content :
            /\ source_content[i] = Line("BEGIN", basename(n))
            /\ Cardinality({j \in 1..i : source_content[j].k = "BEGIN"}) = k

\* C2: in the combined source every unit's block comes after the blocks of
\* all the units it includes, whatever their kinds.
C2_BlocksAfterDependencies ==
    (pc \in {"write", "done"}) =>
        \A e \in Edges(files) : BlockStart(e[2]) < BlockStart(e[1])

\* the guard validation as the claim words it: a guard-shaped #ifndef, the
\* next line the #define of the same name, the last non-blank line an #endif
LastNonBlank(lines) ==
    LET S == {i \in DOMAIN lines : ~IsBlank(lines[i])}
    IN  IF S = {} THEN 0 ELSE CHOOSE i \in S : \A j \in S : j <= i

GuardValid(lines) ==
    \E i \in DOMAIN lines :
        /\ lines[i].k = "ifndef" /\ lines[i].a \in GuardNames
        /\ \A j \in 1..(i - 1) : ~(lines[j].k = "ifndef" /\ lines[j].a \in GuardNames)
        /\ i + 1 <= Len(lines)
        /\ lines[i + 1] = Line("define", lines[i].a)
        /\ LastNonBlank(lines) > i + 1
        /\ lines[LastNonBlank(lines)].k = "endif"

\* the lines of the headers the assembler strips: the registry's headers and
\* the fixed public headers
AssembledHeaderLines ==
    {files[p].lines : p \in {q \in DOMAIN files : is_header(q)}}
    \cup {read_file(header_files(project_root)[i], disk).lines : i \in 1..3}

\* C3: when a header the assembler processes fails guard validation the run
\* ends with MalformedGuard and no output file is written.
C3_MalformedGuardAborts ==
    /\ (error = "MalformedGuard") => (written = {} /\ pc = "failed")
    /\ (pc \in {"write", "done", "failed"}
          /\ \E ls \in AssembledHeaderLines : ~GuardValid(ls))
        => (pc = "failed" /\ error = "MalformedGuard" /\ written = {})

\* the run has failed on a header whose #define names another guard
C3_Witness ==
    /\ pc = "failed"
    /\ error = "MalformedGuard"
    /\ written = {}
    /\ \E p \in DOMAIN files :
          /\ is_header(p)
          /\ Len(files[p].lines) >= 2
          /\ files[p].lines[1] = Line("ifndef", "X_H")
          /\ files[p].lines[2] = Line("define", "Y_H")

\* the physical files of the fixed public-header set
PublicHeaders == {include_dir(RealRoot) \o <<n>> : n \in {"config.h", "error.h", "semi.h"}}

\* C4: no public header is a key of the registry or the target of a
\* dependency edge, and none has a block in the combined source.
C4_PublicHeadersExcluded ==
    /\ \A p \in DOMAIN files :
          /\ resolve(p) \notin PublicHeaders
          /\ \A d \in files[p].dependencies : resolve(d) \notin PublicHeaders
    /\ \A i \in DOMAIN source_content :
          ~(source_content[i].k = "BEGIN"
              /\ source_content[i].a \in {"config.h", "error.h", "semi.h"})

\* C5: two runs of topological_sort on the same registry return the same
\* order.
C5_SortDeterministic ==
    (pc = "resorted") => (sorted_again = sorted_nodes)

\* C6: strip_include_guards returns exactly the body B of a header made of
\* lines without a guard-shaped #ifndef, #ifndef G, #define G, B, #endif and
\* blank lines; it fails on a header whose last non-blank line is no #endif.
C6_StripHeaderGuard ==
    (pc = "stripped" /\ is_header(guard_path)) =>
        /\ \A i \in DOMAIN guard_lines : \A j \in DOMAIN guard_lines :
              ( /\ j > i + 1
                /\ \A h \in 1..(i - 1) : ~(guard_lines[h].k = "ifndef"
                                            /\ guard_lines[h].a \in GuardNames)
                /\ guard_lines[i].k = "ifndef" /\ guard_lines[i].a \in GuardNames
                /\ guard_lines[i + 1] = Line("define", guard_lines[i].a)
                /\ guard_lines[j].k = "endif"
                /\ \A h \in (j + 1)..Len(guard_lines) : IsBlank(guard_lines[h]) )
              => ( /\ guard_result.ok
                   /\ guard_result.lines = SubSeq(guard_lines, i + 2, j - 1) )
        /\ ( LastNonBlank(guard_lines) = 0
               \/ guard_lines[LastNonBlank(guard_lines)].k # "endif" )
              => ( ~guard_result.ok /\ guard_result.err = "MalformedGuard" )

\* a header with a leading line, the guard, one body line, #endif and a
\* trailing blank line has been stripped to its body
C6_Witness ==
    /\ pc = "stripped"
    /\ guard_lines = << Line("ifndef", "U_H"), Line("define", "U_H"),
                        Line("code", "x"), Line("endif", ""), Line("blank", "") >>
    /\ is_header(guard_path)
    /\ guard_result = Return(<<Line("code", "x")>>)

\* C7: discover_files terminates: its work list runs empty and the sort is
\* reached.  (A run the model stops following at MaxQueue counts as ended.)
C7_DiscoverTerminates == <>(pc = "assemble" \/ pc = "overflow")

\* C8: every unit is put on the work list at most once and scanned at most
\* once.
C8_ScannedOnce ==
    \A p \in (DOMAIN pushes) \cup (DOMAIN scans) :
        Count(pushes, p) <= 1 /\ Count(scans, p) <= 1

\* C9: on any registry, cyclic ones included, topological_sort returns every
\* member exactly once; on a cyclic one some unit comes no later than one of
\* its dependencies.
C9_SortCompleteOnCycles ==
    (pc = "sorted") =>
        /\ IsPermutationOf(sorted_nodes, DOMAIN files)
        /\ ~Acyclic(files) =>
              \E a \in DOMAIN files : \E b \in files[a].dependencies :
                  IndexIn(sorted_nodes, a) <= IndexIn(sorted_nodes, b)

\* the two-unit cycle a.c -> b.c -> a.c has been sorted: both units are in
\* the order, a.c after b.c, which includes it
C9_Witness ==
    /\ pc = "sorted"
    /\ files = Registry({<<UnitA, UnitB>>, <<UnitB, UnitA>>})
    /\ IsPermutationOf(sorted_nodes, SortUnits)
    /\ IndexIn(sorted_nodes, UnitB) < IndexIn(sorted_nodes, UnitA)

\* C10: the registry holds at most one unit per physical file.
C10_OneUnitPerFile ==
    \A p \in DOMAIN files : \A q \in DOMAIN files :
        (resolve(p) = resolve(q)) => (p = q)

====
